---- MODULE Spec2Model ----
(***************************************************************************)
(* Payment Schedule page of the Buddy Stocks app                           *)
(* (app/payment-schedule/[buddyId].tsx): the persisted collection of       *)
(* buddies, the page's React state, the Torn logs, and the handlers that   *)
(* scan the logs (detectPayoutsForBuddy), confirm and unconfirm payments   *)
(* (markPayment) and reload the page.                                      *)
(*                                                                         *)
(* A value that JavaScript holds as `null`/`undefined` is the empty        *)
(* sequence Null; a present value x is Some(x) = <<x>>.                    *)
(* Each handler is one atomic action.  The key-value store is reliable in  *)
(* Spec: AsyncStorage.setItem always stores what it is given.              *)
(***************************************************************************)
EXTENDS Integers, Sequences, FiniteSets, TLC

VARIABLES
    storage,        \* AsyncStorage[STORAGE_KEY]: buddy id -> stored buddy record
    buddyIdParam,   \* route parameter of the mounted page, NoPage when none is mounted
    buddy,          \* useState buddy: Null or Some(record)
    allBuddies,     \* useState allBuddies: buddy id -> record, loaded when the page mounts
    moneyLog,       \* Torn log 4810 (money received), in response order
    itemLog,        \* Torn log 4103 (items received), in response order
    clock,          \* Date.now() in unix seconds
    focus,          \* the screen of this session: a buddy's schedule page, or EventsScreen
    stockStorage,   \* AsyncStorage['buddy_stocks']: payments_state of the stock
    stock,          \* useState stock of the events screen: Null or Some(payments_state)
    buddies,        \* useState buddies of the list screen: buddy id -> record, loaded at its mount
    inflight,       \* the scans that have started and not resolved, oldest first
    generated,      \* the schedule that was generated last, and the function that made it
    tornMatches     \* useState tornMatches of the list screen's schedule modal

vars == <<storage, buddyIdParam, buddy, allBuddies, moneyLog, itemLog, clock, focus,
          stockStorage, stock, buddies, inflight, generated, tornMatches>>

(***************************************************************************)
(* Bounds                                                                  *)
(***************************************************************************)
MaxLog == 2        \* entries in the two Torn logs together
MaxAdvance == 1    \* seconds that pass
MaxEventPayments == 2    \* payments the events screen lists
MaxTotalPayouts == 3    \* payouts of an investment whose schedule is generated
MaxScanLog == 2    \* entries of the log a scan is given
MaxGenerate == 2    \* the cap a caller gives generatePayments
MaxPageScans == 1       \* scans in flight in a session with the pages of two buddies
MaxScans == 2    \* scans that are outstanding at a time

(***************************************************************************)
(* Program constants                                                       *)
(***************************************************************************)
MONEY_TOLERANCE == 0
FallbackHours == 72
FallbackWindow == FallbackHours * 3600

Clock0 == FallbackWindow + 10

Null == <<>>
Some(x) == <<x>>
Val(o) == o[1]

NoPage == ""
BuddyIds == {"b1", "b2"}

Max2(a, b) == IF a >= b THEN a ELSE b
Abs(x) == IF x < 0 THEN 0 - x ELSE x

\* Math.round(value / 100) of formatCurrencyNoDecimals
RoundDollars(value) == (value + 50) \div 100

(***************************************************************************)
(* The investments of the portfolio, as the list screen stores them        *)
(***************************************************************************)
DefaultState(i, amount) ==
    [paymentNumber |-> i, amount |-> amount, paid |-> FALSE,
     paidDate |-> Null, note |-> Null, detection |-> Null]

MaxPayments(totalPayouts) ==
    Max2(1, IF totalPayouts # 0 THEN totalPayouts ELSE 1)

StoredByListScreen(id, tornId, name, totalInvested, payoutValue, buddyPayout, itemName, totalPayouts) ==
    [id |-> id, buddyId |-> tornId, name |-> name,
     startDate |-> Some(<<1, 1, 2026>>), daysPerPayout |-> 7,
     totalInvested |-> totalInvested,
     payoutValue |-> payoutValue, buddyPayout |-> buddyPayout,
     itemName |-> itemName, totalPayouts |-> totalPayouts,
     paymentsState |-> [i \in 1..MaxPayments(totalPayouts) |-> DefaultState(i, payoutValue)],
     lastChecked |-> Null]

InitialStorage ==
    [id \in BuddyIds |->
        IF id = "b1"
        THEN StoredByListScreen("b1", 101, "Ann", 1000000, 600000, 500000, Some("Xanax"), 2)
        ELSE StoredByListScreen("b2", 202, "Bob", 0, 499999, 499999, Null, 0)]

\* the Torn items catalogue: name -> id
ItemIdOf(name) == IF name = "Xanax" THEN 206 ELSE 367

(***************************************************************************)
(* Persistence helpers                                                     *)
(***************************************************************************)
normalizeAndRecompute(raw) ==
    LET maxPayments == MaxPayments(raw.totalPayouts)
        ps == raw.paymentsState
    IN  [raw EXCEPT !.paymentsState =
            [i \in (DOMAIN ps) \cup (1..maxPayments) |->
                IF i \in 1..maxPayments
                THEN IF i \notin DOMAIN ps
                     THEN DefaultState(i, raw.buddyPayout)
                     ELSE [ps[i] EXCEPT !.paymentNumber = i]
                ELSE ps[i]]]

loadBuddies(stored) == [id \in DOMAIN stored |-> normalizeAndRecompute(stored[id])]

saveBuddies(list) == list

migrateStoredPaymentAmounts(stored) ==
    [id \in DOMAIN stored |->
        LET rawBuddy == stored[id]
            buddyPayout == rawBuddy.buddyPayout
        IN  [rawBuddy EXCEPT !.paymentsState =
                [k \in DOMAIN rawBuddy.paymentsState |->
                    IF buddyPayout > 0 /\ rawBuddy.paymentsState[k].amount # buddyPayout
                    THEN [rawBuddy.paymentsState[k] EXCEPT !.amount = buddyPayout]
                    ELSE rawBuddy.paymentsState[k]]]]

(***************************************************************************)
(* Torn detection helpers                                                  *)
(***************************************************************************)
\* the pretty message of a money detection:
\* "<time> - <date> <name> sent $<dollars> to you"
PrettyMoney(ts, name, money) ==
    [time |-> ts, name |-> name, dollars |-> RoundDollars(money), item |-> ""]

\* the pretty message of an item detection:
\* "<time> - <date> <name> sent a <itemName> to you"
PrettyItem(ts, name, itemName) ==
    [time |-> ts, name |-> name, dollars |-> 0, item |-> itemName]

\* fetchTornLog: the log object, or null when the request fails
fetchTornLog(ok, log) == IF ok THEN Some(log) ELSE Null

\* resolveItemIdForBuddy: null without an item name, without the key or the
\* catalogue, or when no catalogue entry has the name
resolveItemIdForBuddy(b, catalogueOk) ==
    IF b.itemName = Null THEN Null
    ELSE IF ~catalogueOk THEN Null
    ELSE Some(ItemIdOf(Val(b.itemName)))

findNextUnpaidPaymentNumberFromTop(totalPayouts, paymentsState) ==
    LET max == MaxPayments(totalPayouts)
        unpaid == {i \in 1..max : i \notin DOMAIN paymentsState \/ ~paymentsState[i].paid}
    IN  IF unpaid = {} THEN 0
        ELSE CHOOSE i \in unpaid : \A j \in unpaid : i >= j

findNextUnpaidPaymentNumberOrLast(totalPayouts, paymentsState) ==
    LET max == MaxPayments(totalPayouts)
        unpaid == {i \in 1..max : i \notin DOMAIN paymentsState \/ ~paymentsState[i].paid}
    IN  IF unpaid = {} THEN max
        ELSE CHOOSE i \in unpaid : \A j \in unpaid : i <= j

\* 0 stands for the `null` the function returns when every payment is paid
findNextUnpaidPaymentNumber(totalPayouts, paymentsState) ==
    LET max == MaxPayments(totalPayouts)
        unpaid == {i \in 1..max : i \notin DOMAIN paymentsState \/ ~paymentsState[i].paid}
    IN  IF unpaid = {} THEN 0
        ELSE CHOOSE i \in unpaid : \A j \in unpaid : i <= j

\* paymentsState[k] = v on a copy of the map
SetEntry(paymentsState, k, v) ==
    [i \in (DOMAIN paymentsState) \cup {k} |-> IF i = k THEN v ELSE paymentsState[i]]

AttachDetectionConfirming(paymentsState, nextPayment, fallbackAmount, det) ==
    LET prev == IF nextPayment \in DOMAIN paymentsState
                THEN paymentsState[nextPayment]
                ELSE DefaultState(nextPayment, fallbackAmount)
    IN  SetEntry(paymentsState, nextPayment,
                 [prev EXCEPT !.detection = Some(det), !.paid = TRUE])

AttachDetectionWritingNote(paymentsState, nextPayment, fallbackAmount, det) ==
    LET prev == IF nextPayment \in DOMAIN paymentsState
                THEN paymentsState[nextPayment]
                ELSE DefaultState(nextPayment, fallbackAmount)
    IN  SetEntry(paymentsState, nextPayment,
                 [prev EXCEPT !.detection = Some(det), !.note = Some(det.text)])

\* updated.paymentsState[nextPayment] = { ...(existing ?? default), detection }
AttachDetection(paymentsState, nextPayment, fallbackAmount, det) ==
    LET prev == IF nextPayment \in DOMAIN paymentsState
                THEN paymentsState[nextPayment]
                ELSE DefaultState(nextPayment, fallbackAmount)
    IN  SetEntry(paymentsState, nextPayment, [prev EXCEPT !.detection = Some(det)])

\* the loop over the money log; acc = [ps, matches, newestTs]
RECURSIVE ScanMoneyLog(_, _, _, _)
ScanMoneyLog(b, since, log, acc) ==
    IF log = <<>> THEN acc
    ELSE
        LET entry == Head(log)
            ts == entry.timestamp
            nextPayment == findNextUnpaidPaymentNumber(b.totalPayouts, acc.ps)
            pretty == PrettyMoney(ts, b.name, entry.money)
            hit == /\ ~(ts <= since)
                   /\ entry.sender = b.buddyId /\ entry.money > 0
                   /\ Abs(entry.money - b.buddyPayout) <= MONEY_TOLERANCE
                   /\ nextPayment # 0
            acc2 == IF hit
                    THEN [ps |-> AttachDetection(acc.ps, nextPayment, entry.money,
                                    [type |-> "money", logTimestamp |-> ts, text |-> pretty]),
                          matches |-> Append(acc.matches,
                                    [type |-> "money", paymentNumber |-> nextPayment,
                                     logTimestamp |-> ts, text |-> pretty]),
                          newestTs |-> IF ts > acc.newestTs THEN ts ELSE acc.newestTs]
                    ELSE acc
        IN  ScanMoneyLog(b, since, Tail(log), acc2)

\* the loop over the item log
RECURSIVE ScanItemLog(_, _, _, _, _)
ScanItemLog(b, since, itemIdForBuddy, log, acc) ==
    IF log = <<>> THEN acc
    ELSE
        LET entry == Head(log)
            ts == entry.timestamp
            nextPayment == findNextUnpaidPaymentNumber(b.totalPayouts, acc.ps)
            pretty == PrettyItem(ts, b.name, Val(b.itemName))
            hit == /\ ~(ts <= since)
                   /\ itemIdForBuddy \in entry.items
                   /\ entry.sender = b.buddyId
                   /\ nextPayment # 0
            acc2 == IF hit
                    THEN [ps |-> AttachDetection(acc.ps, nextPayment, b.buddyPayout,
                                    [type |-> "item", logTimestamp |-> ts, text |-> pretty]),
                          matches |-> Append(acc.matches,
                                    [type |-> "item", paymentNumber |-> nextPayment,
                                     logTimestamp |-> ts, text |-> pretty]),
                          newestTs |-> IF ts > acc.newestTs THEN ts ELSE acc.newestTs]
                    ELSE acc
        IN  ScanItemLog(b, since, itemIdForBuddy, Tail(log), acc2)

ScanSinceIgnoringCursor(b, now) == now - FallbackWindow

\* the start of the scan window
ScanSince(b, now) ==
    IF b.lastChecked # Null /\ Val(b.lastChecked) > 0
    THEN Val(b.lastChecked)
    ELSE now - FallbackWindow

AdvancedCursorBackwards(newestTs) == newestTs - 1

AdvancedCursorAtNewest(newestTs) == newestTs

\* lastChecked after a scan with matches
AdvancedCursor(newestTs) == newestTs + 1

(***************************************************************************)
(* detectPayoutsForBuddy: the result and the collection it leaves stored.  *)
(* thrown: the API key is not available and nothing else has happened.     *)
(***************************************************************************)
detectPayoutsForBuddy(b, stored, now, apiKey, moneyResp, itemResp, catalogueOk) ==
    IF ~apiKey
    THEN [thrown |-> TRUE, updatedBuddy |-> b, matches |-> <<>>, stored |-> stored]
    ELSE
        LET since == ScanSince(b, now)
            acc0 == [ps |-> b.paymentsState, matches |-> <<>>, newestTs |-> since]
            acc1 == IF moneyResp # Null
                    THEN ScanMoneyLog(b, since, Val(moneyResp), acc0)
                    ELSE acc0
            itemIdForBuddy == resolveItemIdForBuddy(b, catalogueOk)
            acc2 == IF itemResp # Null /\ itemIdForBuddy # Null
                    THEN ScanItemLog(b, since, Val(itemIdForBuddy), Val(itemResp), acc1)
                    ELSE acc1
            updated == [b EXCEPT !.paymentsState = acc2.ps,
                                 !.lastChecked = Some(AdvancedCursor(acc2.newestTs))]
            all == loadBuddies(stored)
        IN  IF Len(acc2.matches) > 0
            THEN [thrown |-> FALSE,
                  updatedBuddy |-> normalizeAndRecompute(updated),
                  matches |-> acc2.matches,
                  stored |-> saveBuddies([id \in DOMAIN all |->
                                IF id = updated.id THEN normalizeAndRecompute(updated)
                                ELSE all[id]])]
            ELSE IF b.lastChecked = Null \/ Val(b.lastChecked) = 0
            THEN [thrown |-> FALSE,
                  updatedBuddy |-> [b EXCEPT !.lastChecked = Some(now)],
                  matches |-> <<>>,
                  stored |-> saveBuddies([id \in DOMAIN all |->
                                IF id = b.id THEN [all[id] EXCEPT !.lastChecked = Some(now)]
                                ELSE all[id]])]
            ELSE [thrown |-> FALSE, updatedBuddy |-> b, matches |-> <<>>,
                  stored |-> stored]

(***************************************************************************)
(* markPayment: the buddy record it hands to persistBuddyChange            *)
(***************************************************************************)
ConfirmEntryWithoutNote(existing, now) ==
    [existing EXCEPT !.paid = TRUE, !.paidDate = Some(now), !.detection = Null]

ConfirmEntryKeepingDate(existing, now) ==
    LET e1 == [existing EXCEPT !.paid = TRUE,
                               !.paidDate = IF existing.paid THEN @ ELSE Some(now)]
    IN  IF existing.detection # Null
        THEN [e1 EXCEPT !.note = Some(Val(existing.detection).text), !.detection = Null]
        ELSE e1

ConfirmEntryResettingNote(existing, now) ==
    [existing EXCEPT !.paid = TRUE, !.paidDate = Some(now),
                     !.note = IF existing.detection # Null
                              THEN Some(Val(existing.detection).text) ELSE Null,
                     !.detection = Null]

ConfirmEntryKeepingDetection(existing, now) ==
    LET e1 == [existing EXCEPT !.paid = TRUE, !.paidDate = Some(now)]
    IN  IF existing.detection # Null
        THEN [e1 EXCEPT !.note = Some(Val(existing.detection).text)]
        ELSE e1

\* the branch `if (paid)`: a detection message is a non-empty string, so
\* `existing.detection && existing.detection.text` is `existing.detection`
ConfirmEntry(existing, now) ==
    LET e1 == [existing EXCEPT !.paid = TRUE, !.paidDate = Some(now)]
    IN  IF existing.detection # Null
        THEN [e1 EXCEPT !.note = Some(Val(existing.detection).text), !.detection = Null]
        ELSE e1

UnconfirmEntryClearing(existing) ==
    [existing EXCEPT !.paid = FALSE, !.paidDate = Null, !.note = Null, !.detection = Null]

\* the branch `else`: unmarking keeps note and detection
UnconfirmEntry(existing) ==
    [existing EXCEPT !.paid = FALSE, !.paidDate = Null]

markPaymentUpdated(b, paymentNumber, paid, now) ==
    LET existing == IF paymentNumber \in DOMAIN b.paymentsState
                    THEN b.paymentsState[paymentNumber]
                    ELSE DefaultState(paymentNumber, b.buddyPayout)
        marked == IF paid THEN ConfirmEntry(existing, now) ELSE UnconfirmEntry(existing)
    IN  [b EXCEPT !.paymentsState = SetEntry(b.paymentsState, paymentNumber, marked)]

\* persistBuddyChange: the collection it saves and keeps as allBuddies
persistBuddyChange(all, updated) ==
    [id \in DOMAIN all |-> IF id = updated.id THEN updated ELSE all[id]]

\* loaded.find((b) => b.id === id) ?? fallback
FindOr(loaded, id, fallback) ==
    IF id \in DOMAIN loaded THEN loaded[id] ELSE fallback

(***************************************************************************)
(* Handlers of the page, as functions of the state they start from         *)
(***************************************************************************)
\* markPayment(paymentNumber, paid) with persistBuddyChange, then the reload
\* that the card's button and the modal run after it.  The fallback of the
\* reload is the buddy of the render, whose payment entry markPayment has
\* changed in place: it holds what `updated` holds.
MarkThenReload(b, all, paymentNumber, paid, now) ==
    LET updated == markPaymentUpdated(b, paymentNumber, paid, now)
        next == persistBuddyChange(all, updated)
        stored == saveBuddies(next)
        loaded == loadBuddies(stored)
    IN  [storage |-> stored, allBuddies |-> next,
         buddy |-> FindOr(loaded, b.id, updated)]

\* handleDetectPayoutsButton: detectPayoutsForBuddy, then the reload of both
\* branches; a thrown error leaves the page as it is
DetectThenReload(b, stored, now, apiKey, moneyResp, itemResp, catalogueOk) ==
    LET res == detectPayoutsForBuddy(b, stored, now, apiKey, moneyResp, itemResp, catalogueOk)
        loaded == loadBuddies(res.stored)
    IN  [storage |-> res.stored,
         buddy |-> IF res.thrown THEN b
                   ELSE IF Len(res.matches) > 0
                   THEN FindOr(loaded, b.id, res.updatedBuddy)
                   ELSE FindOr(loaded, b.id, b),
         matches |-> res.matches,
         alert |-> IF res.thrown THEN "Error"
                   ELSE IF Len(res.matches) > 0 THEN "Detections"
                   ELSE "No detections"]

(***************************************************************************)
(* The same handlers when AsyncStorage.setItem rejects: saveBuddies        *)
(* catches the error, shows the alert "Save failed" and returns, the store *)
(* keeps what it had, and the handler goes on.                             *)
(***************************************************************************)
MarkThenReloadSaveFails(b, all, stored, paymentNumber, paid, now) ==
    LET updated == markPaymentUpdated(b, paymentNumber, paid, now)
        next == persistBuddyChange(all, updated)
        loaded == loadBuddies(stored)
    IN  [storage |-> stored, allBuddies |-> next,
         buddy |-> FindOr(loaded, b.id, updated),
         alerts |-> <<"Save failed">>]

DetectThenReloadSaveFails(b, stored, now, apiKey, moneyResp, itemResp, catalogueOk) ==
    LET res == detectPayoutsForBuddy(b, stored, now, apiKey, moneyResp, itemResp, catalogueOk)
        loaded == loadBuddies(stored)
        saved == /\ ~res.thrown
                 /\ \/ Len(res.matches) > 0
                    \/ b.lastChecked = Null
                    \/ Val(b.lastChecked) = 0
    IN  [storage |-> stored,
         buddy |-> IF res.thrown THEN b
                   ELSE IF Len(res.matches) > 0
                   THEN FindOr(loaded, b.id, res.updatedBuddy)
                   ELSE FindOr(loaded, b.id, b),
         matches |-> res.matches,
         attempted |-> res.updatedBuddy,
         saveCalled |-> saved,
         alerts |-> (IF saved THEN <<"Save failed">> ELSE <<>>) \o
                    <<IF res.thrown THEN "Error"
                      ELSE IF Len(res.matches) > 0 THEN "Detections"
                      ELSE "No detections">>]

(***************************************************************************)
(* The events-based schedule screen: PaymentSchedule of buddy-stock1.tsx.  *)
(* It keeps its stocks under the key 'buddy_stocks'; stockStorage is the   *)
(* payments_state of the stock the screen is opened for, stock the copy in *)
(* the screen's state.                                                     *)
(***************************************************************************)
EventsScreen == "events"

\* the payments the screen lists (the code generates 200)
EventPaymentNumbers == 1..MaxEventPayments

NoPaymentsState == <<>>

\* what the fields of a missing entry read as: paid ?? false, the rest undefined
NoStateEntry ==
    [paid |-> FALSE, paid_date |-> Null, detected_log_text |-> Null, detection_status |-> ""]

StateEntry(payments_state, n) ==
    IF n \in DOMAIN payments_state THEN payments_state[n] ELSE NoStateEntry

\* the lines "<time> - <date> <sender> sent a <item> to you" of the matching events
EventText == "sent an item to you"

(***************************************************************************)
(* The list screen: BuddyStocksScreen of buddy-stock1.tsx.  It shares the  *)
(* key STORAGE_KEY with the schedule page, loads its `buddies` once, when  *)
(* it mounts, and writes the whole list on every change.                   *)
(***************************************************************************)
\* the object normalizeBuddy returns has the fields of Buddy and no
\* lastChecked; paymentsState: raw?.paymentsState ?? {}
normalizeBuddy(raw) ==
    [id |-> raw.id, buddyId |-> raw.buddyId, name |-> raw.name,
     startDate |-> raw.startDate, daysPerPayout |-> raw.daysPerPayout,
     totalInvested |-> raw.totalInvested,
     payoutValue |-> raw.payoutValue, buddyPayout |-> raw.buddyPayout,
     itemName |-> raw.itemName, totalPayouts |-> raw.totalPayouts,
     paymentsState |-> IF "paymentsState" \in DOMAIN raw
                       THEN raw.paymentsState ELSE NoPaymentsState,
     lastChecked |-> Null]

recomputeBuddy(b) ==
    LET maxPayments == MaxPayments(b.totalPayouts)
        ps == b.paymentsState
    IN  [b EXCEPT !.paymentsState =
            [i \in (DOMAIN ps) \cup (1..maxPayments) |->
                IF i \in 1..maxPayments
                THEN IF i \notin DOMAIN ps
                     THEN DefaultState(i, b.payoutValue)
                     ELSE [ps[i] EXCEPT !.paymentNumber = i]
                ELSE ps[i]]]

\* loadBuddies of the list screen
ListLoadBuddies(stored) ==
    [id \in DOMAIN stored |-> recomputeBuddy(normalizeBuddy(stored[id]))]

ListWithoutNobody(list, id) == list

\* buddies.filter((b) => b.id !== id)
ListWithout(list, id) == [k \in (DOMAIN list) \ {id} |-> list[k]]

(***************************************************************************)
(* ROI helpers of the list screen.  A ratio is the pair of its numerator   *)
(* and its denominator.                                                    *)
(***************************************************************************)
RECURSIVE SumOver(_, _)
SumOver(f, S) ==
    IF S = {} THEN 0
    ELSE LET x == CHOOSE y \in S : TRUE IN f[x] + SumOver(f, S \ {x})

\* Object.values(b.paymentsState).reduce((s, p) => s + (p.paid ? p.amount : 0), 0)
ReceivedOf(b) ==
    SumOver([n \in DOMAIN b.paymentsState |->
                IF b.paymentsState[n].paid THEN b.paymentsState[n].amount ELSE 0],
            DOMAIN b.paymentsState)

computeBuddyROI(listBuddy) ==
    LET b == recomputeBuddy(listBuddy)
        received == ReceivedOf(b)
        invested == b.totalInvested
    IN  [invested |-> invested, received |-> received,
         roi |-> IF invested = 0 THEN <<0, 1>> ELSE <<received - invested, invested>>]

computePortfolioOverview(list) ==
    LET invested == SumOver([id \in DOMAIN list |-> computeBuddyROI(list[id]).invested],
                            DOMAIN list)
        received == SumOver([id \in DOMAIN list |-> computeBuddyROI(list[id]).received],
                            DOMAIN list)
    IN  [invested |-> invested, received |-> received,
         roi |-> IF invested = 0 THEN <<0, 1>> ELSE <<received - invested, invested>>]

(***************************************************************************)
(* Scheduled dates.  A Date at local midnight is the calendar day          *)
(* [y, m, d]; a "DD-MM-YYYY" string is the sequence of its three numbers.  *)
(***************************************************************************)
IsLeapYear(y) == (y % 4 = 0 /\ y % 100 # 0) \/ y % 400 = 0

DaysInMonth(y, m) ==
    IF m = 2 THEN (IF IsLeapYear(y) THEN 29 ELSE 28)
    ELSE IF m \in {4, 6, 9, 11} THEN 30 ELSE 31

\* new Date(y, m - 1, d) and Date.prototype.setDate for d >= 1: days past the
\* end of the month run into the months that follow
RECURSIVE DaysToYearEnd(_, _)
DaysToYearEnd(y, m) ==
    IF m > 12 THEN 0 ELSE DaysInMonth(y, m) + DaysToYearEnd(y, m + 1)

RECURSIVE DateOf(_, _, _)
DateOf(y, m, d) ==
    IF m > 12 THEN DateOf(y + 1, m - 12, d)
    ELSE IF d > DaysToYearEnd(y, m) THEN DateOf(y + 1, 1, d - DaysToYearEnd(y, m))
    ELSE IF d > DaysInMonth(y, m) THEN DateOf(y, m + 1, d - DaysInMonth(y, m))
    ELSE [y |-> y, m |-> m, d |-> d]

parseDDMMYYYY(s) ==
    IF s = Null THEN Null
    ELSE LET parts == Val(s)
         IN  IF Len(parts) # 3 THEN Null
             ELSE IF parts[1] = 0 \/ parts[2] = 0 \/ parts[3] = 0 THEN Null
             ELSE Some(DateOf(parts[3], parts[2], parts[1]))

\* date.setDate(date.getDate() + n)
AddDays(date, n) == DateOf(date.y, date.m, date.d + n)

ScheduleSliceFromTop(payments, count) ==
    SubSeq(payments, 1, IF count <= Len(payments) THEN count ELSE Len(payments))

\* the first unpaid payment and the count - 1 that follow it, or the last
\* count payments when all are paid
ScheduleSlice(payments, count) ==
    LET unpaid == {i \in 1..Len(payments) : ~payments[i].paid}
        startIndex == IF unpaid = {}
                      THEN Max2(0, Len(payments) - count)
                      ELSE (CHOOSE i \in unpaid : \A j \in unpaid : i <= j) - 1
        end == IF startIndex + count <= Len(payments)
               THEN startIndex + count ELSE Len(payments)
    IN  SubSeq(payments, startIndex + 1, end)

\* generatePaymentsForBuddy of the schedule page
generatePaymentsForBuddy(b, count) ==
    LET start == parseDDMMYYYY(b.startDate)
        days == Max2(0, b.daysPerPayout)
        total == MaxPayments(b.totalPayouts)
        payments ==
            [i \in 1..total |->
                LET hasState == i \in DOMAIN b.paymentsState
                    state == b.paymentsState[i]
                IN  [paymentNumber |-> i,
                     date |-> IF start = Null THEN Null
                              ELSE Some(AddDays(Val(start), (i - 1) * days)),
                     amount |-> IF hasState THEN state.amount ELSE b.buddyPayout,
                     paid |-> IF hasState THEN state.paid ELSE FALSE,
                     detection |-> IF hasState THEN state.detection ELSE Null]]
    IN  ScheduleSlice(payments, count)

GeneratedTotalToCap(totalPayouts, maxPayments) == maxPayments

\* b.totalPayouts > 0 ? Math.min(maxPayments, b.totalPayouts) : maxPayments
GeneratedTotal(totalPayouts, maxPayments) ==
    IF totalPayouts > 0
    THEN (IF maxPayments <= totalPayouts THEN maxPayments ELSE totalPayouts)
    ELSE maxPayments

\* generatePayments of the list screen's schedule modal; a payment that has no
\* paidDate gets its scheduled date there (toISOString keeps the instant)
generatePayments(listBuddy, maxPayments) ==
    LET b == recomputeBuddy(listBuddy)
        total == GeneratedTotal(b.totalPayouts, maxPayments)
        startDate == parseDDMMYYYY(b.startDate)
    IN  [i \in 1..total |->
            LET hasState == i \in DOMAIN b.paymentsState
                state == b.paymentsState[i]
                kept == IF hasState THEN state.paidDate ELSE Null
            IN  [paymentNumber |-> i,
                 amount |-> b.payoutValue,
                 paid |-> IF hasState THEN state.paid ELSE FALSE,
                 paidDate |-> IF startDate # Null /\ b.daysPerPayout > 0 /\ kept = Null
                              THEN Some(AddDays(Val(startDate), i * b.daysPerPayout))
                              ELSE kept,
                 note |-> IF hasState THEN state.note ELSE Null]]

RECURSIVE DaysBeforeMonth(_, _)
DaysBeforeMonth(y, m) ==
    IF m = 1 THEN 0 ELSE DaysBeforeMonth(y, m - 1) + DaysInMonth(y, m - 1)

\* date.getTime() in whole days: the number of the calendar day in the
\* proleptic Gregorian calendar
DayNumber(date) ==
    LET y == date.y - 1
    IN  365 * y + (y \div 4) - (y \div 100) + (y \div 400)
          + DaysBeforeMonth(date.y, date.m) + date.d

\* the day of new Date(iso) for the paidDate a confirm stored, unix seconds
DayOfInstant(ts) == DayNumber([y |-> 1970, m |-> 1, d |-> 1]) + (ts \div 86400)

\* Math.max(0, Math.ceil((scheduled - now) / day)) for a day `scheduled` at
\* midnight and a `today` that has begun
DaysUntil(scheduledDay, today) == Max2(0, scheduledDay - DayNumber(today))

\* the first i in 1..cap at which i payments of `amount` reach `invested`, or 0
RECURSIVE FirstCovering(_, _, _, _)
FirstCovering(amount, invested, i, cap) ==
    IF i > cap THEN 0
    ELSE IF i * amount >= invested THEN i
    ELSE FirstCovering(amount, invested, i + 1, cap)

\* daysUntilBreakEven of the list screen
daysUntilBreakEven(listBuddy, today) ==
    LET b == recomputeBuddy(listBuddy)
        invested == b.totalInvested
        start == parseDDMMYYYY(b.startDate)
        cap == Max2(1, IF b.totalPayouts # 0 THEN b.totalPayouts ELSE 100)
        i == FirstCovering(b.payoutValue, invested, 1, cap)
    IN  IF invested <= 0 THEN Null
        ELSE IF i = 0 THEN Null
        ELSE IF start = Null \/ b.daysPerPayout <= 0 THEN Null
        ELSE Some(DaysUntil(DayNumber(AddDays(Val(start), i * b.daysPerPayout)), today))

\* roiDaysUntilBreakEven of the list screen with the schedule modal; the
\* amounts of generatePayments are all b.payoutValue
roiDaysUntilBreakEven(listBuddy, today) ==
    LET b == recomputeBuddy(listBuddy)
        invested == b.totalInvested
        payments == generatePayments(b, Max2(1, b.totalPayouts))
        i == FirstCovering(b.payoutValue, invested, 1, Len(payments))
        scheduled == IF payments[i].paidDate = Null THEN Null
                     ELSE IF payments[i].paid
                     THEN Some(DayOfInstant(Val(payments[i].paidDate)))
                     ELSE Some(DayNumber(Val(payments[i].paidDate)))
    IN  IF invested <= 0
        THEN [daysUntilBreakEven |-> Some(0), paymentNumber |-> Some(0), breakEvenDate |-> Null]
        ELSE IF i = 0
        THEN [daysUntilBreakEven |-> Null, paymentNumber |-> Null, breakEvenDate |-> Null]
        ELSE IF scheduled = Null
        THEN [daysUntilBreakEven |-> Null, paymentNumber |-> Some(i), breakEvenDate |-> Null]
        ELSE [daysUntilBreakEven |-> Some(DaysUntil(Val(scheduled), today)),
              paymentNumber |-> Some(i), breakEvenDate |-> scheduled]

(***************************************************************************)
(* detectMatchesInLog of the list screen's schedule modal, for the entries *)
(* of a money log: an entry has an amount in dollars, no items, a title    *)
(* that names no item and a text that names no user id.                    *)
(***************************************************************************)
MoneyMatchInLog(b, entry, nowSec) ==
    LET ts == entry.timestamp
        amountCents == entry.amount * 100
        involvesBuddy == entry.sender = b.buddyId \/ entry.receiver = b.buddyId
    IN  /\ ts # 0
        /\ ~(ts > nowSec)
        /\ ~(nowSec - ts > FallbackWindow)
        /\ amountCents > 0 /\ b.payoutValue > 0 /\ amountCents = b.payoutValue
        /\ involvesBuddy

RECURSIVE MatchesOf(_, _, _)
MatchesOf(b, entries, nowSec) ==
    IF entries = <<>> THEN <<>>
    ELSE LET entry == Head(entries)
             rest == MatchesOf(b, Tail(entries), nowSec)
         IN  IF MoneyMatchInLog(b, entry, nowSec)
             THEN <<[type |-> "money", amount |-> entry.amount * 100,
                     timestamp |-> entry.timestamp,
                     reason |-> "amount match and buddy involved",
                     senderId |-> entry.sender, receiverId |-> entry.receiver]>> \o rest
             ELSE rest

detectMatchesInLog(listBuddy, logData, nowSec) ==
    MatchesOf(recomputeBuddy(listBuddy), logData, nowSec)

(***************************************************************************)
(* State machine                                                           *)
(***************************************************************************)

EmptyCollection == <<>>

\* no schedule has been generated
NoSchedule == [by |-> "", count |-> 0, rows |-> <<>>]

\* a payout of the buddy that Torn logged one second less than 72 hours before
\* the session starts: inside the fallback window at Clock0, outside it later
OldPayout(b) ==
    [timestamp |-> Clock0 - FallbackWindow + 1, sender |-> b.buddyId, money |-> b.buddyPayout]

Init ==
    /\ storage = InitialStorage
    /\ buddyIdParam = NoPage
    /\ buddy = Null
    /\ allBuddies = EmptyCollection
    /\ focus \in BuddyIds \cup {EventsScreen}
    /\ moneyLog = IF focus \in BuddyIds
                  THEN <<OldPayout(InitialStorage[focus])>>
                  ELSE <<>>
    /\ itemLog = <<>>
    /\ clock = Clock0
    /\ stockStorage = NoPaymentsState
    /\ stock = Null
    /\ buddies = ListLoadBuddies(InitialStorage)
    /\ inflight = <<>>
    /\ generated = NoSchedule
    /\ tornMatches = <<>>

\* one second passes
Tick ==
    /\ clock < Clock0 + MaxAdvance
    /\ clock' = clock + 1
    /\ UNCHANGED <<storage, buddyIdParam, buddy, allBuddies, moneyLog, itemLog, focus, buddies, inflight, stockStorage, stock, generated, tornMatches>>

\* Torn records money sent to the user
TornMoneyLogged(sender, money, ts) ==
    /\ Len(moneyLog) + Len(itemLog) < MaxLog
    /\ moneyLog' = Append(moneyLog, [timestamp |-> ts, sender |-> sender, money |-> money])
    /\ UNCHANGED <<storage, buddyIdParam, buddy, allBuddies, itemLog, clock, focus, buddies, inflight, stockStorage, stock, generated, tornMatches>>

\* Torn records items sent to the user
TornItemLogged(sender, itemId, ts) ==
    /\ Len(moneyLog) + Len(itemLog) < MaxLog
    /\ itemLog' = Append(itemLog, [timestamp |-> ts, sender |-> sender, items |-> {itemId}])
    /\ UNCHANGED <<storage, buddyIdParam, buddy, allBuddies, moneyLog, clock, focus, buddies, inflight, stockStorage, stock, generated, tornMatches>>

\* the useEffect of PaymentSchedulePage for the route parameter id
MountPage(id) ==
    /\ LET migrated == migrateStoredPaymentAmounts(storage)
           loaded == loadBuddies(migrated)
       IN  /\ storage' = migrated
           /\ allBuddies' = loaded
           /\ buddy' = IF id \in DOMAIN loaded THEN Some(loaded[id]) ELSE Null
    /\ buddyIdParam' = id

\* the Schedule button of a buddy, after router.back() when the page was
\* mounted: the page mounts anew and runs the useEffect of PaymentSchedulePage
OpenPage(id) ==
    /\ id = focus
    /\ MountPage(id)
    /\ UNCHANGED <<moneyLog, itemLog, clock, focus, buddies, inflight, stockStorage, stock, generated, tornMatches>>

MarkStep(paymentNumber, paid) ==
    LET b == Val(buddy)
        r == MarkThenReload(b, allBuddies, paymentNumber, paid, clock)
    IN  /\ storage' = r.storage
        /\ allBuddies' = r.allBuddies
        /\ buddy' = Some(r.buddy)
        /\ UNCHANGED <<buddyIdParam, moneyLog, itemLog, clock, focus, buddies, inflight, stockStorage, stock, generated, tornMatches>>

\* the Mark paid / Unmark button of a payment card.  The card shows what the
\* last render knew, so a second press before the first one has been rendered
\* calls markPayment with the same `paid` again.
MarkPaymentPressed(paymentNumber, paid) ==
    /\ buddy # Null
    /\ paymentNumber \in 1..MaxPayments(Val(buddy).totalPayouts)
    /\ MarkStep(paymentNumber, paid)

\* Unmark in the past-payouts modal, which lists the paid payments
unmarkPastPayment(paymentNumber) ==
    /\ buddy # Null
    /\ paymentNumber \in DOMAIN Val(buddy).paymentsState
    /\ Val(buddy).paymentsState[paymentNumber].paid
    /\ MarkStep(paymentNumber, FALSE)

\* the Refresh button
RefreshPressed ==
    /\ buddy # Null
    /\ buddy' = Some(FindOr(loadBuddies(storage), Val(buddy).id, Val(buddy)))
    /\ UNCHANGED <<storage, buddyIdParam, allBuddies, moneyLog, itemLog, clock, focus, buddies, inflight, stockStorage, stock, generated, tornMatches>>

\* what a press of Detect payouts does now, given what the secret store and
\* the Torn requests answer
ScanResult(apiKey, moneyOk, itemOk, catalogueOk) ==
    DetectThenReload(Val(buddy), storage, clock, apiKey,
                     fetchTornLog(moneyOk, moneyLog), fetchTornLog(itemOk, itemLog),
                     catalogueOk)

\* the Detect payouts button
handleDetectPayoutsButton(apiKey, moneyOk, itemOk, catalogueOk) ==
    /\ buddy # Null
    /\ LET r == ScanResult(apiKey, moneyOk, itemOk, catalogueOk)
       IN  /\ storage' = r.storage
           /\ buddy' = Some(r.buddy)
    /\ UNCHANGED <<buddyIdParam, allBuddies, moneyLog, itemLog, clock, focus, buddies, inflight, stockStorage, stock, generated, tornMatches>>

\* the handlers of the events screen
\* useEffect and pull-to-refresh
fetchStockAndPayments ==
    /\ focus = EventsScreen
    /\ stock' = Some(stockStorage)
    /\ UNCHANGED <<storage, buddyIdParam, buddy, allBuddies, moneyLog, itemLog, clock,
                   focus, buddies, inflight, stockStorage, generated, tornMatches>>

\* updatePaymentState with the entry the updater returns
updatePaymentState(paymentNumber, entry) ==
    /\ stockStorage' = SetEntry(stockStorage, paymentNumber, entry)
    /\ stock' = Some(stockStorage')
    /\ UNCHANGED <<storage, buddyIdParam, buddy, allBuddies, moneyLog, itemLog, clock,
                   focus, buddies, inflight, generated, tornMatches>>

\* the paid / unpaid toggle of the list
handleMarkPaid(paymentNumber) ==
    /\ stock # Null
    /\ LET currentlyPaid == StateEntry(Val(stock), paymentNumber).paid
           prev == StateEntry(stockStorage, paymentNumber)
       IN  updatePaymentState(paymentNumber,
               [paid |-> ~currentlyPaid,
                paid_date |-> IF ~currentlyPaid THEN Some(clock) ELSE Null,
                detected_log_text |-> prev.detected_log_text,
                detection_status |-> prev.detection_status])

\* Confirm in the send-money modal; eventFound: the events request succeeded
\* and an event matches the payment
handleConfirmPayment(paymentNumber, eventFound) ==
    /\ stock # Null
    /\ LET prev == StateEntry(stockStorage, paymentNumber)
       IN  updatePaymentState(paymentNumber,
               [paid |-> TRUE,
                paid_date |-> Some(clock),
                detected_log_text |-> IF eventFound THEN Some(EventText)
                                      ELSE prev.detected_log_text,
                detection_status |-> IF eventFound THEN "found"
                                     ELSE prev.detection_status])

\* the Detect button; matched: the payments an event matches
handleDetectEvents(key, responseOk, matched) ==
    /\ stock # Null
    /\ IF key /\ responseOk
       THEN LET updatedStates ==
                   [n \in EventPaymentNumbers |->
                       LET prev == StateEntry(Val(stock), n)
                       IN  IF n \in matched
                           THEN [prev EXCEPT !.detected_log_text = Some(EventText),
                                             !.detection_status = "found"]
                           ELSE [prev EXCEPT !.detection_status = "no_log_found"]]
            IN  /\ stockStorage' = updatedStates
                /\ stock' = Some(updatedStates)
       ELSE UNCHANGED <<stockStorage, stock>>
    /\ UNCHANGED <<storage, buddyIdParam, buddy, allBuddies, moneyLog, itemLog, clock,
                   focus, buddies, inflight, generated, tornMatches>>

\* what the secret store and the three Torn requests of a scan can do:
\* <<API key available, money log fetched, item log fetched, item id resolved>>;
\* without the key no request is made, without the item log no item is resolved
ScanOutcomes ==
    {<<FALSE, FALSE, FALSE, FALSE>>} \cup
    {o \in {TRUE} \X BOOLEAN \X BOOLEAN \X BOOLEAN : o[4] => o[3]}

\* what Torn logs during a session: the buddy sends the payout or a dollar
\* less, and the item of the first stock or another one
MoneyKinds(b) == {<<b.buddyId, b.buddyPayout>>, <<b.buddyId, b.buddyPayout - 1>>}
ItemKinds(b) == {<<b.buddyId, ItemIdOf("Xanax")>>, <<b.buddyId, ItemIdOf("Other")>>}

PaymentNumbers == 1..2

Next ==
    \/ Tick
    \/ focus \in BuddyIds /\ \E k \in MoneyKinds(InitialStorage[focus]) : TornMoneyLogged(k[1], k[2], clock)
    \/ focus \in BuddyIds /\ \E k \in ItemKinds(InitialStorage[focus]) : TornItemLogged(k[1], k[2], clock)
    \/ \E id \in BuddyIds : OpenPage(id)
    \/ \E n \in PaymentNumbers, paid \in BOOLEAN : MarkPaymentPressed(n, paid)
    \/ \E n \in PaymentNumbers : unmarkPastPayment(n)
    \/ RefreshPressed
    \/ \E o \in ScanOutcomes : handleDetectPayoutsButton(o[1], o[2], o[3], o[4])
    \/ fetchStockAndPayments
    \/ \E n \in EventPaymentNumbers : handleMarkPaid(n)
    \/ \E n \in EventPaymentNumbers, eventFound \in BOOLEAN :
          handleConfirmPayment(n, eventFound)
    \/ \E key \in BOOLEAN, responseOk \in BOOLEAN, matched \in SUBSET EventPaymentNumbers :
          /\ (responseOk => key) /\ (matched # {} => responseOk)
          /\ handleDetectEvents(key, responseOk, matched)

Spec == Init /\ [][Next]_vars

(***************************************************************************)
(* The session with the list screen and with scans that take time:         *)
(* detectPayoutsForBuddy awaits the Torn requests, and between its start   *)
(* and its end the user can leave the page, use the list and come back.    *)
(***************************************************************************)
\* `loading` of the mounted page: a scan it started has not resolved, and
\* the page renders the spinner instead of its buttons
Loading == \E i \in 1..Len(inflight) : inflight[i].shown

\* the scans of a page that has been unmounted go on; their setState calls
\* reach no mounted component
Orphaned(scans) == [i \in 1..Len(scans) |-> [scans[i] EXCEPT !.shown = FALSE]]

WithoutScan(scans, i) == SubSeq(scans, 1, i - 1) \o SubSeq(scans, i + 1, Len(scans))

\* Schedule pressed on the card of a buddy of the list (after router.back()
\* when a page was mounted)
OpenFromList(id) ==
    /\ id = focus
    /\ id \in DOMAIN buddies
    /\ MountPage(id)
    /\ inflight' = Orphaned(inflight)
    /\ UNCHANGED <<moneyLog, itemLog, clock, focus, buddies, stockStorage, stock, generated, tornMatches>>

\* Remove on the card of a buddy of the list (after router.back() when a
\* page was mounted): removeBuddy and persist
removeBuddy(id) ==
    /\ focus \in BuddyIds
    /\ id \in DOMAIN buddies
    /\ buddies' = ListWithout(buddies, id)
    /\ storage' = saveBuddies(buddies')
    /\ buddyIdParam' = NoPage
    /\ buddy' = Null
    /\ allBuddies' = EmptyCollection
    /\ inflight' = Orphaned(inflight)
    /\ UNCHANGED <<moneyLog, itemLog, clock, focus, stockStorage, stock, generated, tornMatches>>

\* parseCurrencyInput of a string of digits: whole dollars to cents
parseCurrencyInput(dollars) == dollars * 100

\* openEdit: the form of the edit modal, filled from the buddy of the list;
\* an amount field holds the digits of Math.round(cents / 100)
openEdit(b) ==
    [id |-> b.id, name |-> b.name, buddyId |-> b.buddyId,
     startDate |-> b.startDate, daysPerPayout |-> b.daysPerPayout,
     totalInvestedStr |-> RoundDollars(b.totalInvested),
     payoutValueStr |-> RoundDollars(b.payoutValue),
     buddyPayoutStr |-> RoundDollars(b.buddyPayout),
     itemName |-> b.itemName, totalPayoutsStr |-> b.totalPayouts]

\* the object saveEditing hands to addOrUpdateBuddy
ToSave(form) ==
    [id |-> form.id, name |-> form.name, buddyId |-> form.buddyId,
     startDate |-> form.startDate, daysPerPayout |-> form.daysPerPayout,
     totalInvested |-> parseCurrencyInput(form.totalInvestedStr),
     payoutValue |-> parseCurrencyInput(form.payoutValueStr),
     buddyPayout |-> parseCurrencyInput(form.buddyPayoutStr),
     itemName |-> form.itemName, totalPayouts |-> form.totalPayoutsStr]

\* [...buddies.filter((s) => s.id !== recomputed.id), recomputed]
addOrUpdateBuddy(list, incoming) ==
    LET recomputed == recomputeBuddy(normalizeBuddy(incoming))
    IN  [k \in (DOMAIN list) \cup {recomputed.id} |->
            IF k = recomputed.id THEN recomputed ELSE list[k]]

\* Edit on the card of a buddy of the list (after router.back() when a page
\* was mounted) and Save in the modal, the form as openEdit filled it:
\* saveEditing, addOrUpdateBuddy and persist
saveEditing(id) ==
    /\ focus \in BuddyIds
    /\ id \in DOMAIN buddies
    /\ buddies' = addOrUpdateBuddy(buddies, ToSave(openEdit(buddies[id])))
    /\ storage' = saveBuddies(buddies')
    /\ buddyIdParam' = NoPage
    /\ buddy' = Null
    /\ allBuddies' = EmptyCollection
    /\ inflight' = Orphaned(inflight)
    /\ UNCHANGED <<moneyLog, itemLog, clock, focus, stockStorage, stock, generated, tornMatches>>

\* a payment card's button, which the page renders when it is not loading
MarkWhileIdle(paymentNumber, paid) ==
    /\ ~Loading
    /\ MarkPaymentPressed(paymentNumber, paid)

\* Detect payouts pressed: setLoading(true), and detectPayoutsForBuddy starts
\* with the buddy of this render and reads the time
BeginScan ==
    /\ buddy # Null
    /\ ~Loading
    /\ Len(inflight) < MaxScans
    /\ inflight' = Append(inflight, [b |-> Val(buddy), now |-> clock, shown |-> TRUE])
    /\ UNCHANGED <<storage, buddyIdParam, buddy, allBuddies, moneyLog, itemLog, clock,
                   focus, buddies, stockStorage, stock, generated, tornMatches>>

\* the i-th scan resolves: its requests are answered, it stores its result
\* and the handler reloads the buddy into the page that started it
CompleteScan(i, apiKey, moneyOk, itemOk, catalogueOk) ==
    /\ i \in 1..Len(inflight)
    /\ LET s == inflight[i]
           r == DetectThenReload(s.b, storage, s.now, apiKey,
                                 fetchTornLog(moneyOk, moneyLog),
                                 fetchTornLog(itemOk, itemLog), catalogueOk)
       IN  /\ storage' = r.storage
           /\ buddy' = IF s.shown THEN Some(r.buddy) ELSE buddy
    /\ inflight' = WithoutScan(inflight, i)
    /\ UNCHANGED <<buddyIdParam, allBuddies, moneyLog, itemLog, clock, focus, buddies,
                   stockStorage, stock, generated, tornMatches>>

\* a payment card's button when the store rejects the write
MarkWhileIdleSaveFails(paymentNumber, paid) ==
    /\ ~Loading
    /\ buddy # Null
    /\ paymentNumber \in 1..MaxPayments(Val(buddy).totalPayouts)
    /\ LET r == MarkThenReloadSaveFails(Val(buddy), allBuddies, storage, paymentNumber,
                                        paid, clock)
       IN  /\ allBuddies' = r.allBuddies
           /\ buddy' = Some(r.buddy)
    /\ UNCHANGED <<storage, buddyIdParam, moneyLog, itemLog, clock, focus, buddies, inflight,
                   stockStorage, stock, generated, tornMatches>>

\* the i-th scan resolves and calls saveBuddies, and the store rejects the write
CompleteScanSaveFails(i, apiKey, moneyOk, itemOk, catalogueOk) ==
    /\ i \in 1..Len(inflight)
    /\ LET s == inflight[i]
           r == DetectThenReloadSaveFails(s.b, storage, s.now, apiKey,
                                          fetchTornLog(moneyOk, moneyLog),
                                          fetchTornLog(itemOk, itemLog), catalogueOk)
       IN  /\ r.saveCalled
           /\ buddy' = IF s.shown THEN Some(r.buddy) ELSE buddy
    /\ inflight' = WithoutScan(inflight, i)
    /\ UNCHANGED <<storage, buddyIdParam, allBuddies, moneyLog, itemLog, clock, focus,
                   buddies, stockStorage, stock, generated, tornMatches>>

InitApp == Init /\ focus = "b2"

NextApp ==
    \/ \E id \in BuddyIds : OpenFromList(id)
    \/ \E id \in BuddyIds : removeBuddy(id)
    \/ \E n \in PaymentNumbers, paid \in BOOLEAN : MarkWhileIdle(n, paid)
    \/ BeginScan
    \/ \E i \in 1..MaxScans, o \in ScanOutcomes : CompleteScan(i, o[1], o[2], o[3], o[4])
    \/ \E n \in PaymentNumbers, paid \in BOOLEAN : MarkWhileIdleSaveFails(n, paid)
    \/ \E i \in 1..MaxScans, o \in ScanOutcomes :
          CompleteScanSaveFails(i, o[1], o[2], o[3], o[4])

SpecApp == InitApp /\ [][NextApp]_vars

(***************************************************************************)
(* The schedule pages of two investments in one session: the user opens    *)
(* the page of one, starts a scan, goes back to the list and edits a buddy *)
(* or opens the page of the other while the requests of the scan are       *)
(* pending.                                                                *)
(***************************************************************************)
\* Schedule pressed on the card of any buddy of the list (after
\* router.back() when a page was mounted)
OpenAnyFromList(id) ==
    /\ id \in DOMAIN buddies
    /\ MountPage(id)
    /\ inflight' = Orphaned(inflight)
    /\ UNCHANGED <<moneyLog, itemLog, clock, focus, buddies, stockStorage, stock, generated, tornMatches>>

\* Detect payouts pressed on the mounted page
BeginPageScan ==
    /\ Len(inflight) < MaxPageScans
    /\ BeginScan

NextPages ==
    \/ \E id \in BuddyIds : OpenAnyFromList(id)
    \/ \E id \in BuddyIds : saveEditing(id)
    \/ \E n \in PaymentNumbers, paid \in BOOLEAN : MarkWhileIdle(n, paid)
    \/ BeginPageScan
    \/ \E i \in 1..MaxPageScans, o \in ScanOutcomes :
          CompleteScan(i, o[1], o[2], o[3], o[4])

SpecPages == InitApp /\ [][NextPages]_vars

(***************************************************************************)
(* The schedule generators, applied to investments whose start date,       *)
(* interval, number of payouts and paid payments are drawn from small sets *)
(***************************************************************************)
\* no start date, "01-2026", and four days of the calendar
StartDates ==
    {Null, Some(<<1, 2026>>), Some(<<1, 1, 2026>>), Some(<<31, 1, 2026>>),
     Some(<<15, 2, 2028>>), Some(<<25, 12, 2026>>)}

Intervals == {0, 1, 7, 30}

\* nothing invested, one payout, two payouts, four payouts
Principals == {0, 500000, 1000000, 2000000}

\* the days on which the break-even is asked for
Todays == {[y |-> 2026, m |-> 1, d |-> 10]}

\* a stored investment with these schedule fields whose payments of the set
\* paidNumbers are marked paid
ScheduleBuddy(startDate, daysPerPayout, totalPayouts, totalInvested, paidNumbers) ==
    [id |-> "b1", buddyId |-> 101, name |-> "Ann",
     totalInvested |-> totalInvested,
     payoutValue |-> 500000, buddyPayout |-> 500000,
     itemName |-> Null, totalPayouts |-> totalPayouts,
     startDate |-> startDate, daysPerPayout |-> daysPerPayout,
     paymentsState |->
        [i \in 1..MaxPayments(totalPayouts) |->
            IF i \in paidNumbers
            THEN ConfirmEntry(DefaultState(i, 500000), Clock0)
            ELSE DefaultState(i, 500000)],
     lastChecked |-> Null]

InitSchedule ==
    \E startDate \in StartDates, daysPerPayout \in Intervals,
       totalPayouts \in 0..MaxTotalPayouts, totalInvested \in Principals :
       \E paidNumbers \in SUBSET (1..MaxPayments(totalPayouts)) :
          LET b == ScheduleBuddy(startDate, daysPerPayout, totalPayouts, totalInvested,
                                 paidNumbers)
          IN  /\ storage = [id \in {b.id} |-> b]
              /\ buddyIdParam = b.id
              /\ buddy = Some(b)
              /\ allBuddies = [id \in {b.id} |-> b]
              /\ buddies = [id \in {b.id} |-> b]
              /\ focus = b.id
              /\ moneyLog = <<>>
              /\ itemLog = <<>>
              /\ clock = Clock0
              /\ stockStorage = NoPaymentsState
              /\ stock = Null
              /\ inflight = <<>>
              /\ generated = NoSchedule
              /\ tornMatches = <<>>

\* setPayments(generatePaymentsForBuddy(buddy, 5)) of the schedule page, and
\* generatePaymentsForBuddy(buddy, 1) of its "Next payout" line
ShowSchedule(count) ==
    /\ buddy # Null
    /\ generated' = [by |-> "generatePaymentsForBuddy", count |-> count,
                     rows |-> generatePaymentsForBuddy(Val(buddy), count)]
    /\ UNCHANGED <<storage, buddyIdParam, buddy, allBuddies, moneyLog, itemLog, clock,
                   focus, buddies, inflight, stockStorage, stock, tornMatches>>

\* the rows "Scheduled payments" of the list screen's schedule modal
ShowScheduleModal(id) ==
    /\ id \in DOMAIN buddies
    /\ generated' = [by |-> "generatePayments", count |-> 200,
                     rows |-> generatePayments(buddies[id], 200)]
    /\ UNCHANGED <<storage, buddyIdParam, buddy, allBuddies, moneyLog, itemLog, clock,
                   focus, buddies, inflight, stockStorage, stock, tornMatches>>

\* generatePayments with a cap of its caller's choice
GenerateUpTo(id, maxPayments) ==
    /\ id \in DOMAIN buddies
    /\ generated' = [by |-> "generatePayments", count |-> maxPayments,
                     rows |-> generatePayments(buddies[id], maxPayments)]
    /\ UNCHANGED <<storage, buddyIdParam, buddy, allBuddies, moneyLog, itemLog, clock,
                   focus, buddies, inflight, stockStorage, stock, tornMatches>>

\* the break-even line of a buddy's card on the list screen
ShowBreakEven(id, today) ==
    /\ id \in DOMAIN buddies
    /\ generated' = [by |-> "daysUntilBreakEven", count |-> 0,
                     rows |-> <<daysUntilBreakEven(buddies[id], today)>>]
    /\ UNCHANGED <<storage, buddyIdParam, buddy, allBuddies, moneyLog, itemLog, clock,
                   focus, buddies, inflight, stockStorage, stock, tornMatches>>

\* the break-even lines of the schedule modal
ShowRoiBreakEven(id, today) ==
    /\ id \in DOMAIN buddies
    /\ generated' = [by |-> "roiDaysUntilBreakEven", count |-> 0,
                     rows |-> <<roiDaysUntilBreakEven(buddies[id], today)>>]
    /\ UNCHANGED <<storage, buddyIdParam, buddy, allBuddies, moneyLog, itemLog, clock,
                   focus, buddies, inflight, stockStorage, stock, tornMatches>>

NextSchedule ==
    \/ \E count \in {1, 5} : ShowSchedule(count)
    \/ \E id \in BuddyIds : ShowScheduleModal(id)
    \/ \E id \in BuddyIds, maxPayments \in 1..MaxGenerate : GenerateUpTo(id, maxPayments)
    \/ \E id \in BuddyIds, today \in Todays : ShowBreakEven(id, today)
    \/ \E id \in BuddyIds, today \in Todays : ShowRoiBreakEven(id, today)

SpecSchedule == InitSchedule /\ [][NextSchedule]_vars

(***************************************************************************)
(* Scans of a log that Torn has already written.  Its entries are drawn    *)
(* from senders, receivers, sums and times around the scan window: the     *)
(* clock of the device may be behind Torn's.                               *)
(***************************************************************************)
\* sender, receiver, data.money, amount: the payout of the buddy, a dollar
\* less, the payout sent by somebody else, and the same sum sent to the buddy
ScanEntryKinds(b) ==
    {<<b.buddyId, 1, b.buddyPayout, b.payoutValue \div 100>>,
     <<b.buddyId, 1, b.buddyPayout - 1, (b.payoutValue \div 100) - 1>>,
     <<999, 1, b.buddyPayout, b.payoutValue \div 100>>,
     <<1, b.buddyId, b.buddyPayout, b.payoutValue \div 100>>}

\* at the cursor, inside the window, and after the device's clock
ScanEntryTimes == {Clock0 - 5, Clock0 - 1, Clock0 + 5}

ScanEntries(b) ==
    {[timestamp |-> ts, sender |-> k[1], receiver |-> k[2], money |-> k[3], amount |-> k[4]] :
        ts \in ScanEntryTimes, k \in ScanEntryKinds(b)}

InitScan ==
    \E lastChecked \in {Null, Some(Clock0 - 5)} :
       \E n \in 0..MaxScanLog :
          \E log \in [1..n -> ScanEntries(InitialStorage["b1"])] :
             LET stored == [InitialStorage EXCEPT !["b1"].lastChecked = lastChecked]
             IN  /\ storage = stored
                 /\ buddyIdParam = NoPage
                 /\ buddy = Null
                 /\ allBuddies = EmptyCollection
                 /\ focus = "b1"
                 /\ moneyLog = log
                 /\ itemLog = <<>>
                 /\ clock = Clock0
                 /\ stockStorage = NoPaymentsState
                 /\ stock = Null
                 /\ buddies = ListLoadBuddies(stored)
                 /\ inflight = <<>>
                 /\ generated = NoSchedule
                 /\ tornMatches = <<>>

\* Fetch Torn logs in the schedule modal of the buddy `focus`: without the
\* key or when the request fails an alert is all that happens
handleFetchTornLogs(savedKey, responseOk) ==
    /\ focus \in DOMAIN buddies
    /\ tornMatches' = IF savedKey /\ responseOk
                      THEN detectMatchesInLog(buddies[focus], moneyLog, clock)
                      ELSE tornMatches
    /\ UNCHANGED <<storage, buddyIdParam, buddy, allBuddies, moneyLog, itemLog, clock,
                   focus, buddies, inflight, stockStorage, stock, generated>>

NextScan ==
    \/ \E id \in BuddyIds : OpenPage(id)
    \/ \E o \in ScanOutcomes : handleDetectPayoutsButton(o[1], o[2], o[3], o[4])
    \/ \E savedKey \in BOOLEAN, responseOk \in BOOLEAN :
          (responseOk => savedKey) /\ handleFetchTornLogs(savedKey, responseOk)

SpecScan == InitScan /\ [][NextScan]_vars

(***************************************************************************)
(* Properties                                                              *)
(***************************************************************************)
\* the page shows its buddy before and after the step, at the same time and
\* over the same Torn logs
SamePage ==
    /\ buddy # Null /\ buddy' # Null /\ buddyIdParam' = buddyIdParam
    /\ clock' = clock /\ moneyLog' = moneyLog /\ itemLog' = itemLog

\* the step is a press of Detect payouts with outcome o
ScanStep(o) == SamePage /\ handleDetectPayoutsButton(o[1], o[2], o[3], o[4])

\* the step is markPayment(n, paid) called from a payment card
MarkStepOf(n, paid) == SamePage /\ MarkPaymentPressed(n, paid)

\* the entry of payment n in a paymentsState map; a missing entry reads as
\* the default the handlers substitute for it
EntryOf(paymentsState, n) ==
    IF n \in DOMAIN paymentsState THEN paymentsState[n] ELSE DefaultState(n, 0)

\* the payments of the buddy on the page
Shown == IF buddy = Null THEN {} ELSE DOMAIN Val(buddy).paymentsState

ShownEntry(n) == Val(buddy).paymentsState[n]

SetMax(S) == CHOOSE x \in S : \A y \in S : y <= x

FailedScanChangesNothing ==
    [][\A o \in ScanOutcomes :
          ScanStep(o) /\ (~o[1] \/ ~o[2] \/ ~o[3]) =>
             /\ Val(buddy').paymentsState = Val(buddy).paymentsState
             /\ Val(buddy').lastChecked = Val(buddy).lastChecked
             /\ \A id \in DOMAIN storage :
                   /\ storage'[id].paymentsState = storage[id].paymentsState
                   /\ storage'[id].lastChecked = storage[id].lastChecked
      ]_vars

\* C3: markPayment(n, true) leaves payment n paid with paidDate the time of
\* the call; a detection attached to n before the call has its text in note
\* after it, and detection is null.
ConfirmSetsPaidDateAndNote ==
    [][\A n \in PaymentNumbers :
          MarkStepOf(n, TRUE) =>
             LET before == ShownEntry(n)
                 after == Val(buddy').paymentsState[n]
             IN  /\ after.paid /\ after.paidDate = Some(clock)
                 /\ before.detection # Null =>
                       /\ after.note = Some(Val(before.detection).text)
                       /\ after.detection = Null
                 /\ storage'[Val(buddy).id].paymentsState[n] = after
      ]_vars

\* a confirm made at this time has moved a detection message into the note
ConfirmedWithNote ==
    \E n \in Shown :
       /\ ShownEntry(n).paid /\ ShownEntry(n).paidDate = Some(clock)
       /\ ShownEntry(n).note # Null /\ ShownEntry(n).detection = Null

\* C4: markPayment(n, false) leaves payment n unpaid and its note and
\* detection as they were.
UnconfirmKeepsNoteAndDetection ==
    [][\A n \in PaymentNumbers :
          MarkStepOf(n, FALSE) \/ unmarkPastPayment(n) =>
             LET before == ShownEntry(n)
                 after == Val(buddy').paymentsState[n]
             IN  /\ ~after.paid
                 /\ after.note = before.note
                 /\ after.detection = before.detection
                 /\ storage'[Val(buddy).id].paymentsState[n] = after
      ]_vars

\* a payment that was confirmed with a note has been unconfirmed
UnconfirmedWithNote ==
    \E n \in Shown :
       /\ ~ShownEntry(n).paid /\ ShownEntry(n).paidDate = Null
       /\ ShownEntry(n).note # Null /\ ShownEntry(n).detection = Null

\* C5: a note changes only in a confirm of its payment made while a detection
\* was attached to it, and then to that detection's text; no other step (scan,
\* unconfirm, load, migration) changes a note, on the page or in the store.
NoteOnlyFromConfirmedDetection ==
    [][ /\ \A id \in DOMAIN storage' : \A n \in DOMAIN storage'[id].paymentsState :
              LET old == EntryOf(storage[id].paymentsState, n).note
                  new == storage'[id].paymentsState[n].note
              IN  new # old =>
                     /\ id = buddyIdParam /\ MarkStepOf(n, TRUE)
                     /\ ShownEntry(n).detection # Null
                     /\ new = Some(Val(ShownEntry(n).detection).text)
        /\ buddy' # Null =>
              \A n \in DOMAIN Val(buddy').paymentsState :
                 LET shown == IF buddy # Null /\ buddyIdParam' = buddyIdParam
                              THEN Val(buddy).paymentsState
                              ELSE storage[Val(buddy').id].paymentsState
                     old == EntryOf(shown, n).note
                     new == Val(buddy').paymentsState[n].note
                 IN  new # old =>
                        /\ MarkStepOf(n, TRUE)
                        /\ ShownEntry(n).detection # Null
                        /\ new = Some(Val(ShownEntry(n).detection).text)
      ]_vars

\* a note has outlived an unconfirm and a scan that attached a new detection
NoteSurvivesOtherSteps ==
    \E n \in Shown :
       /\ ~ShownEntry(n).paid
       /\ ShownEntry(n).note # Null /\ ShownEntry(n).detection # Null
       /\ storage[Val(buddy).id].paymentsState[n].note = ShownEntry(n).note

AfterUnconfirmConfirm(n) ==
    LET r1 == MarkThenReload(Val(buddy), allBuddies, n, FALSE, clock)
        r2 == MarkThenReload(r1.buddy, r1.allBuddies, n, TRUE, clock)
    IN  r2.buddy.paymentsState[n]

\* C7 as stated: after confirm(n), unconfirm(n), confirm(n) with no detection
\* attached in between, payment n does not carry the note or the detection it
\* had before the unconfirm.  A paid payment is one a confirm has left.
ReconfirmDropsOldNote ==
    \A n \in Shown :
       ShownEntry(n).paid =>
          /\ ShownEntry(n).note # Null =>
                AfterUnconfirmConfirm(n).note # ShownEntry(n).note
          /\ ShownEntry(n).detection # Null =>
                AfterUnconfirmConfirm(n).detection # ShownEntry(n).detection

\* C7 amended: after confirm(n), unconfirm(n), confirm(n) with no detection
\* attached in between, payment n is paid and still has the note it had
\* before the unconfirm, and no detection: the note is kept, the detection
\* stays cleared.
ReconfirmKeepsOldNote ==
    \A n \in Shown :
       ShownEntry(n).paid =>
          /\ AfterUnconfirmConfirm(n).note = ShownEntry(n).note
          /\ ShownEntry(n).detection = Null
          /\ AfterUnconfirmConfirm(n).detection = Null
          /\ AfterUnconfirmConfirm(n).paid

\* a confirm has left a note, and an unconfirm and a confirm would keep it
ConfirmLeftNote ==
    \E n \in Shown :
       /\ ShownEntry(n).paid /\ ShownEntry(n).note # Null
       /\ AfterUnconfirmConfirm(n).note = ShownEntry(n).note

\* C8: a scan that reports a match leaves lastChecked strictly above the start
\* of its window: the lastChecked it found, or now - 72h when there was none;
\* this holds for every scan that can be started in a reachable state.
CursorStrictlyIncreases ==
    buddy # Null =>
       \A o \in ScanOutcomes :
          LET r == ScanResult(o[1], o[2], o[3], o[4])
          IN  r.matches # <<>> =>
                 /\ r.buddy.lastChecked # Null
                 /\ Val(r.buddy.lastChecked) > ScanSince(Val(buddy), clock)
                 /\ r.storage[Val(buddy).id].lastChecked = r.buddy.lastChecked
                 /\ Val(buddy).lastChecked # Null =>
                       Val(r.buddy.lastChecked) > Val(Val(buddy).lastChecked)

\* a scan has attached a detection and left the cursor above its timestamp
CursorMovedByMatch ==
    /\ buddy # Null /\ Val(buddy).lastChecked # Null
    /\ \E n \in Shown :
          /\ ShownEntry(n).detection # Null
          /\ Val(ShownEntry(n).detection).logTimestamp < Val(Val(buddy).lastChecked)
    /\ storage[Val(buddy).id].lastChecked = Val(buddy).lastChecked

\* C9: a scan followed by a second scan that gets the same responses (the same
\* log entries, at the same or a later time) reports no match the second time
\* and attaches no detection; this holds for every scan that can be started in
\* a reachable state.
RescanFindsNothing ==
    buddy # Null =>
       \A o \in ScanOutcomes :
          LET r == ScanResult(o[1], o[2], o[3], o[4])
          IN  \A later \in 0..MaxAdvance :
                 LET again == DetectThenReload(r.buddy, r.storage, clock + later, o[1],
                                  fetchTornLog(o[2], moneyLog), fetchTornLog(o[3], itemLog),
                                  o[4])
                 IN  /\ again.matches = <<>>
                     /\ again.buddy.paymentsState = r.buddy.paymentsState
                     /\ \A id \in DOMAIN r.storage :
                           again.storage[id].paymentsState = r.storage[id].paymentsState

\* a scan has attached a detection for a log entry that Torn still returns
DetectedEntryStillLogged ==
    \E n \in Shown :
       /\ ShownEntry(n).detection # Null
       /\ \/ \E i \in 1..Len(moneyLog) :
                moneyLog[i].timestamp = Val(ShownEntry(n).detection).logTimestamp
          \/ \E i \in 1..Len(itemLog) :
                itemLog[i].timestamp = Val(ShownEntry(n).detection).logTimestamp

\* C10: after a scan that ran (the API key was there), lastChecked is the
\* largest timestamp of the matches plus one if there was a match; with no
\* match it is the time of the scan if it was not set, and unchanged if it
\* was; this holds for every scan that can be started in a reachable state.
CursorAfterScan ==
    buddy # Null =>
       \A o \in ScanOutcomes :
          o[1] =>
             LET b == Val(buddy)
                 r == ScanResult(o[1], o[2], o[3], o[4])
                 matched == {r.matches[i].logTimestamp : i \in 1..Len(r.matches)}
                 expected == IF matched # {} THEN Some(SetMax(matched) + 1)
                             ELSE IF b.lastChecked = Null THEN Some(clock)
                             ELSE b.lastChecked
             IN  /\ r.buddy.lastChecked = expected
                 /\ r.storage[b.id].lastChecked = expected

\* a scan has matched an entry logged at the time of the scan and set
\* lastChecked to the second after it
CursorPastNewestMatch ==
    /\ buddy # Null /\ clock > Clock0
    /\ Val(buddy).lastChecked = Some(clock + 1)
    /\ \E n \in Shown :
          /\ ShownEntry(n).detection # Null
          /\ Val(ShownEntry(n).detection).logTimestamp = clock

(***************************************************************************)
(* Properties of the scan's assignment of matches                          *)
(***************************************************************************)
\* the unpaid payments of a buddy record, among the payments it has
UnpaidOf(b) ==
    {i \in 1..MaxPayments(b.totalPayouts) : ~EntryOf(b.paymentsState, i).paid}

\* the payments whose detection differs between two paymentsState maps
DetectionChanged(before, after) ==
    {n \in DOMAIN after : EntryOf(after, n).detection # EntryOf(before, n).detection}

\* C11: every match of a scan, and every detection the scan writes on the
\* page or in the store, is on the lowest-numbered payment that is unpaid
\* when the scan runs: never on a paid payment, never on an unpaid payment
\* above another unpaid one.  (A scan changes no paid flag, so the unpaid
\* payments are the same at every point of the scan.)
DetectionOnLowestUnpaid ==
    buddy # Null =>
       \A o \in ScanOutcomes :
          LET b == Val(buddy)
              r == ScanResult(o[1], o[2], o[3], o[4])
              target(n) == /\ n \in UnpaidOf(b)
                           /\ \A m \in UnpaidOf(b) : n <= m
          IN  /\ \A i \in 1..Len(r.matches) : target(r.matches[i].paymentNumber)
              /\ \A n \in DetectionChanged(b.paymentsState, r.buddy.paymentsState) :
                    target(n)
              /\ \A n \in DetectionChanged(storage[b.id].paymentsState,
                                           r.storage[b.id].paymentsState) :
                    target(n)

\* a scan has attached a detection to payment 2 while payment 1 is paid
DetectionSkippedPaidPayment ==
    /\ buddy # Null
    /\ {1, 2} \subseteq Shown
    /\ ShownEntry(1).paid /\ ShownEntry(1).detection = Null
    /\ ~ShownEntry(2).paid /\ ShownEntry(2).detection # Null

\* C12: the matches of one scan are on different payments: once an entry has
\* been assigned to payment n, no later entry of the money log or the item
\* log is assigned to n in the same scan.
OneMatchPerPaymentPerScan ==
    buddy # Null =>
       \A o \in ScanOutcomes :
          LET r == ScanResult(o[1], o[2], o[3], o[4])
          IN  \A i, j \in 1..Len(r.matches) :
                 i # j => r.matches[i].paymentNumber # r.matches[j].paymentNumber

\* C13: a payment holds one detection at most (the entry has a single
\* detection field), and a scan that finds no match leaves every detection
\* that was pending in place: on the schedule page the detection of every
\* payment, on the events screen the 'found' status and the text of every
\* unpaid payment that had them.
EmptyScanKeepsDetections ==
    [][ /\ \A o \in ScanOutcomes :
              ScanStep(o) /\ ScanResult(o[1], o[2], o[3], o[4]).matches = <<>> =>
                 /\ \A n \in DOMAIN Val(buddy).paymentsState :
                       Val(buddy').paymentsState[n].detection
                          = Val(buddy).paymentsState[n].detection
                 /\ \A n \in DOMAIN storage[Val(buddy).id].paymentsState :
                       storage'[Val(buddy).id].paymentsState[n].detection
                          = storage[Val(buddy).id].paymentsState[n].detection
        /\ handleDetectEvents(TRUE, TRUE, {}) =>
              \A n \in DOMAIN stockStorage :
                 ~stockStorage[n].paid /\ stockStorage[n].detection_status = "found" =>
                    /\ stockStorage'[n].detection_status = "found"
                    /\ stockStorage'[n].detected_log_text = stockStorage[n].detected_log_text
      ]_vars

(***************************************************************************)
(* Properties of the session with the list screen                          *)
(***************************************************************************)
\* C14: the PaymentState entries of a buddy are inside its stored record, so
\* they leave the store with it: the write of removeBuddy(id) leaves no
\* record of id in the stored collection, and no later write brings a record
\* back (the stored ids never grow), whatever scans are outstanding.
DeleteRemovesRecordAndStates ==
    [][ /\ DOMAIN storage' \subseteq DOMAIN storage
        /\ \A id \in BuddyIds :
              removeBuddy(id) => id \notin DOMAIN storage' /\ id \notin DOMAIN buddies'
      ]_vars

\* the buddy of the session has been removed while a scan of its page is
\* outstanding, which will write the collection when it resolves
RemovedWithScanOutstanding ==
    /\ focus \notin DOMAIN storage
    /\ focus \notin DOMAIN buddies
    /\ \E i \in 1..Len(inflight) : inflight[i].b.id = focus

\* C15: at most one scan is outstanding per investment: no two scans that
\* have started and not resolved are scans of the same buddy.
OneScanOutstanding ==
    \A i, j \in 1..Len(inflight) :
       i # j => inflight[i].b.id # inflight[j].b.id

\* C16: the operations that write the stored collection are serialized, so
\* none of them overwrites what another one has stored: removing a buddy
\* leaves the stored records of the others as they are, a scan that resolves
\* leaves every stored paid flag, paidDate and note as it is, and a confirm
\* or unconfirm leaves every stored cursor as it is.
NoStaleWrite ==
    [][ /\ \A id \in BuddyIds :
              removeBuddy(id) => \A k \in DOMAIN storage' : storage'[k] = storage[k]
        /\ (\E i \in 1..MaxScans, o \in ScanOutcomes :
               CompleteScan(i, o[1], o[2], o[3], o[4])) =>
              \A k \in DOMAIN storage : \A n \in DOMAIN storage[k].paymentsState :
                 /\ storage'[k].paymentsState[n].paid = storage[k].paymentsState[n].paid
                 /\ storage'[k].paymentsState[n].paidDate = storage[k].paymentsState[n].paidDate
                 /\ storage'[k].paymentsState[n].note = storage[k].paymentsState[n].note
        /\ (\E n \in PaymentNumbers, paid \in BOOLEAN : MarkWhileIdle(n, paid)) =>
              \A k \in DOMAIN storage : storage'[k].lastChecked = storage[k].lastChecked
      ]_vars

\* C17: when the store rejects the write of a confirm, an unconfirm or a
\* scan, the page keeps the attempted change: after the confirm or unconfirm
\* payment n has the paid flag that was asked for, and after a scan the page
\* shows the buddy with the scan's changes and no "Detections" alert reports
\* success.
FailedWriteKeepsChange ==
    [][ /\ \A n \in PaymentNumbers, paid \in BOOLEAN :
              MarkWhileIdleSaveFails(n, paid) =>
                 Val(buddy').paymentsState[n].paid = paid
        /\ \A i \in 1..MaxScans, o \in ScanOutcomes :
              (i <= Len(inflight) /\ inflight[i].shown
                 /\ CompleteScanSaveFails(i, o[1], o[2], o[3], o[4])) =>
                 LET s == inflight[i]
                     r == DetectThenReloadSaveFails(s.b, storage, s.now, o[1],
                             fetchTornLog(o[2], moneyLog), fetchTornLog(o[3], itemLog), o[4])
                 IN  /\ Val(buddy') = r.attempted
                     /\ "Detections" \notin {r.alerts[k] : k \in 1..Len(r.alerts)}
      ]_vars

(***************************************************************************)
(* Properties of the generated schedule                                    *)
(***************************************************************************)
\* the functions whose result is a list of schedule rows
ScheduleGenerators == {"generatePaymentsForBuddy", "generatePayments"}

\* the due date a generated row shows: none on a row of the modal that shows
\* the day the payment was paid
DueDate(by, row) ==
    IF by = "generatePaymentsForBuddy" THEN row.date
    ELSE IF row.paid THEN Null ELSE row.paidDate

\* C18: with a valid start date and a positive interval, every generated
\* payment n is due n intervals of calendar days after the start date.
DueDateIsStartPlusIntervals ==
    LET b == Val(buddy)
        start == parseDDMMYYYY(b.startDate)
    IN  (generated.by \in ScheduleGenerators /\ start # Null /\ b.daysPerPayout > 0) =>
           \A k \in 1..Len(generated.rows) :
              LET row == generated.rows[k]
                  due == DueDate(generated.by, row)
              IN  (generated.by = "generatePaymentsForBuddy" \/ ~row.paid) =>
                     /\ due # Null
                     /\ DayNumber(Val(due)) =
                           DayNumber(Val(start)) + row.paymentNumber * b.daysPerPayout

(***************************************************************************)
(* Properties of the scan window and of the monetary match                 *)
(***************************************************************************)
\* C19: whatever the requests of a scan answer, each of its matches is an
\* entry later than the cursor and not later than the scan's now, and the
\* cursor it leaves is not beyond the second after now.
ScanWindowEndsNow ==
    buddy # Null =>
       \A o \in ScanOutcomes :
          LET r == ScanResult(o[1], o[2], o[3], o[4])
              since == ScanSince(Val(buddy), clock)
          IN  /\ \A k \in 1..Len(r.matches) :
                    /\ r.matches[k].logTimestamp > since
                    /\ r.matches[k].logTimestamp <= clock
              /\ (Len(r.matches) > 0 /\ r.buddy.lastChecked # Null) =>
                    Val(r.buddy.lastChecked) <= clock + 1

\* C20: every monetary match that the schedule page's scan or the schedule
\* modal reports is an entry whose sender is the buddy.
MoneyMatchIsFromBuddy ==
    /\ buddy # Null =>
          \A o \in ScanOutcomes :
             LET r == ScanResult(o[1], o[2], o[3], o[4])
             IN  \A k \in 1..Len(r.matches) :
                    r.matches[k].type = "money" =>
                       \E i \in 1..Len(moneyLog) :
                          /\ moneyLog[i].timestamp = r.matches[k].logTimestamp
                          /\ moneyLog[i].sender = Val(buddy).buddyId
                          /\ Abs(moneyLog[i].money - Val(buddy).buddyPayout) <= MONEY_TOLERANCE
    /\ \A k \in 1..Len(tornMatches) :
          tornMatches[k].type = "money" => tornMatches[k].senderId = buddies[focus].buddyId

(***************************************************************************)
(* Properties of what a scan returns                                       *)
(***************************************************************************)
\* C21: the matches a scan of the schedule page returns, and the matches the
\* schedule modal shows, are in ascending order of their entries' timestamps.
MatchesAscendByTimestamp ==
    /\ buddy # Null =>
          \A o \in ScanOutcomes :
             LET r == ScanResult(o[1], o[2], o[3], o[4])
             IN  \A j, k \in 1..Len(r.matches) :
                    j < k => r.matches[j].logTimestamp <= r.matches[k].logTimestamp
    /\ \A j, k \in 1..Len(tornMatches) :
          j < k => tornMatches[j].timestamp <= tornMatches[k].timestamp

NextPaymentsView ==
    generated.by = "generatePaymentsForBuddy" =>
       LET b == Val(buddy)
           rows == generated.rows
           total == MaxPayments(b.totalPayouts)
           unpaid == {n \in 1..total : ~b.paymentsState[n].paid}
           first == IF unpaid = {}
                    THEN Max2(1, total - generated.count + 1)
                    ELSE CHOOSE n \in unpaid : \A m \in unpaid : n <= m
           last == IF first + generated.count - 1 <= total
                   THEN first + generated.count - 1 ELSE total
       IN  /\ Len(rows) >= 1
           /\ Len(rows) = last - first + 1
           /\ \A k \in 1..Len(rows) : rows[k].paymentNumber = first + k - 1

\* the view starts at an unpaid payment after a paid one, a lower-numbered
\* payment, and ends before the schedule does
ViewStartsPastPaidPayment ==
    /\ generated.by = "generatePaymentsForBuddy"
    /\ Len(generated.rows) >= 1
    /\ generated.rows[1].paymentNumber > 1
    /\ ~generated.rows[1].paid
    /\ generated.rows[Len(generated.rows)].paymentNumber
          < MaxPayments(Val(buddy).totalPayouts)

\* C24: when the start date is missing or cannot be parsed, or the interval
\* is not positive, no generated payment has a due date.
NoDueDateWithoutSchedule ==
    LET b == Val(buddy)
    IN  (generated.by \in ScheduleGenerators /\ (parseDDMMYYYY(b.startDate) = Null \/ b.daysPerPayout <= 0)) =>
           \A k \in 1..Len(generated.rows) :
              (generated.by = "generatePaymentsForBuddy" \/ ~generated.rows[k].paid) =>
                 DueDate(generated.by, generated.rows[k]) = Null

(***************************************************************************)
(* Properties of the portfolio's figures                                   *)
(***************************************************************************)
\* the amounts of the paid payments of the schedule the list screen generates
PaidScheduleAmounts(b) ==
    LET rows == generatePayments(b, MaxPayments(b.totalPayouts))
    IN  SumOver([k \in 1..Len(rows) |-> IF rows[k].paid THEN rows[k].amount ELSE 0],
                1..Len(rows))

\* C25: the total received that the list screen computes from the stored
\* investments is the sum of the scheduled amounts of the paid payments of
\* their schedules.
ReceivedIsPaidScheduleAmounts ==
    LET list == ListLoadBuddies(storage)
    IN  computePortfolioOverview(list).received =
           SumOver([id \in DOMAIN list |-> PaidScheduleAmounts(list[id])], DOMAIN list)

(***************************************************************************)
(* Properties of the break-even                                            *)
(***************************************************************************)
\* the amounts of the first n payments of the schedule, each payoutValue
CumulativeExpected(b, n) == n * b.payoutValue

\* the sequence numbers 1..max(1, totalPayouts) at which the cumulative
\* expected amount has reached the principal
CoveringNumbers(b) ==
    {n \in 1..Max2(1, b.totalPayouts) : CumulativeExpected(b, n) >= b.totalInvested}

\* C26: the break-even is the first sequence number at which the cumulative
\* expected amount reaches the principal, and it is null when the principal
\* is not positive or the schedule never reaches it.
BreakEvenIsFirstCoveringPayment ==
    generated.by = "roiDaysUntilBreakEven" =>
       LET b == buddies[focus]
           res == generated.rows[1]
       IN  IF b.totalInvested <= 0 \/ CoveringNumbers(b) = {}
           THEN res.paymentNumber = Null /\ res.daysUntilBreakEven = Null
           ELSE /\ res.paymentNumber # Null
                /\ Val(res.paymentNumber) \in CoveringNumbers(b)
                /\ \A n \in CoveringNumbers(b) : Val(res.paymentNumber) <= n

(***************************************************************************)
(* Properties of an edit saved from the list screen                        *)
(***************************************************************************)
\* C27: saving an edit of a buddy from the list screen leaves the stored
\* PaymentState entries of the buddy and its stored lastChecked as they are.
EditKeepsPaymentStateAndCursor ==
    [][ \A id \in BuddyIds :
           (id \in DOMAIN storage /\ saveEditing(id)) =>
              /\ id \in DOMAIN storage'
              /\ storage'[id].paymentsState = storage[id].paymentsState
              /\ storage'[id].lastChecked = storage[id].lastChecked
      ]_vars

(***************************************************************************)
(* Properties of paid payments and pending detections                      *)
(***************************************************************************)
\* no entry of the paymentsState map is paid and carries a detection
NoPaidWithDetection(paymentsState) ==
    \A n \in DOMAIN paymentsState :
       ~(paymentsState[n].paid /\ paymentsState[n].detection # Null)

\* C28: in every state reachable by scans, confirms and unconfirms on the
\* schedule page, no payment is both paid and carrying a pending detection,
\* on the page and in the stored collection.
PaidHasNoPendingDetection ==
    /\ buddy # Null => NoPaidWithDetection(Val(buddy).paymentsState)
    /\ \A id \in DOMAIN storage : NoPaidWithDetection(storage[id].paymentsState)

\* a confirm has consumed the detection of a payment, and the scan after it
\* has attached a detection to the next, unpaid payment
DetectionBesidePaidPayment ==
    /\ buddy # Null
    /\ \E n, k \in Shown :
          /\ n # k
          /\ ShownEntry(n).paid /\ ShownEntry(n).note # Null /\ ShownEntry(n).detection = Null
          /\ ~ShownEntry(k).paid /\ ShownEntry(k).detection # Null
          /\ storage[Val(buddy).id].paymentsState = Val(buddy).paymentsState

(***************************************************************************)
(* Properties of the write of a confirm or unconfirm                       *)
(***************************************************************************)
\* C29: a confirm or unconfirm on the schedule page changes the stored
\* record of its buddy only: the stored record of every other buddy is after
\* the write what it was in storage just before it.
MarkWritesOnlyItsBuddy ==
    [][ (\E n \in PaymentNumbers, paid \in BOOLEAN : MarkWhileIdle(n, paid)) =>
           /\ DOMAIN storage' = DOMAIN storage
           /\ \A k \in DOMAIN storage :
                 k # Val(buddy).id => storage'[k] = storage[k]
      ]_vars

(***************************************************************************)
(* Properties of a scan of a fully paid investment                         *)
(***************************************************************************)
\* every sequence number 1..max(1, totalPayouts) of the buddy is paid
AllPaid(b) ==
    \A n \in 1..MaxPayments(b.totalPayouts) :
       n \in DOMAIN b.paymentsState /\ b.paymentsState[n].paid

\* the entry of the money log would match the buddy in a scan started now
MatchingEntry(b, entry) ==
    /\ entry.timestamp > ScanSince(b, clock)
    /\ entry.sender = b.buddyId
    /\ entry.money > 0
    /\ Abs(entry.money - b.buddyPayout) <= MONEY_TOLERANCE

\* C30: when every sequence number 1..max(1, totalPayouts) is paid, a scan
\* attaches no detection, reports no match and leaves a cursor that is set
\* where it is, on the page and in the stored collection, whatever the logs
\* hold; and a scan of an investment with totalPayouts = 0 attaches
\* detections to payment #1 only.  This holds for every scan that can be
\* started in a reachable state.
FullyPaidScanAttachesNothing ==
    buddy # Null =>
       \A o \in ScanOutcomes :
          LET b == Val(buddy)
              r == ScanResult(o[1], o[2], o[3], o[4])
              after == r.storage[b.id].paymentsState
          IN  /\ AllPaid(b) =>
                    /\ r.matches = <<>>
                    /\ \A n \in DOMAIN r.buddy.paymentsState :
                          r.buddy.paymentsState[n].detection = EntryOf(b.paymentsState, n).detection
                    /\ \A n \in DOMAIN after :
                          after[n].detection = EntryOf(storage[b.id].paymentsState, n).detection
                    /\ (b.lastChecked # Null /\ Val(b.lastChecked) > 0) =>
                          /\ r.buddy.lastChecked = b.lastChecked
                          /\ r.storage[b.id].lastChecked = storage[b.id].lastChecked
              /\ b.totalPayouts = 0 =>
                    /\ \A i \in 1..Len(r.matches) : r.matches[i].paymentNumber = 1
                    /\ \A n \in DOMAIN r.buddy.paymentsState :
                          n # 1 => r.buddy.paymentsState[n].detection = Null

\* every payment of the buddy on the page is paid, its cursor is set, and
\* the money log holds an entry after the cursor that matches the buddy
FullyPaidWithMatchingEntry ==
    /\ buddy # Null
    /\ AllPaid(Val(buddy))
    /\ Val(buddy).lastChecked # Null /\ Val(Val(buddy).lastChecked) > 0
    /\ \E i \in 1..Len(moneyLog) : MatchingEntry(Val(buddy), moneyLog[i])

====
